---- MODULE Spec2Model ----
(***************************************************************************)
(* Model of mcp_server_odoo/odoo_client.py: the OdooConfig record with its *)
(* credential validation, and the OdooClient facade (construction, cached  *)
(* authentication, keyword shaping and result unwrapping of the CRUD and   *)
(* introspection calls).  The odooly client and the Odoo server are the    *)
(* environment: every remote call either raises or returns a value drawn   *)
(* from a bounded set.                                                     *)
(***************************************************************************)
EXTENDS Integers, Sequences, FiniteSets, TLC

VARIABLES
    pc,      \* "start", "config_error", "configured", "import_error", "idle", "returned"
    cfgIn,   \* the arguments the caller gave to OdooConfig(...)
    config,  \* outcome of OdooConfig(...): [ok, err, cfg]
    self,    \* the OdooClient instance's attributes
    op,      \* name of the facade method that ran last
    inp,     \* the arguments the caller gave to that method
    remote,  \* what the remote side answered to that method's remote call
    calls,   \* the remote calls that method issued, in order
    ret,     \* how that method ended: a returned value or a raised error
    pre,     \* the instance's attributes when that method was entered
    hist     \* history: remote authenticate calls so far, first success, last failure

vars == <<pc, cfgIn, config, self, op, inp, remote, calls, ret, pre, hist>>

----------------------------------------------------------------------------
(* Bounds *)

\* longest ids / values sequence a caller passes, longest sequence the remote returns
MaxLen == 2
\* most remote authenticate calls in one behaviour
MaxAuthCalls == 2

SeqsUpTo(S, n) == UNION {[1..k -> S] : k \in 0..n}

----------------------------------------------------------------------------
(* Python values *)

Py(t, n, s, l) == [t |-> t, n |-> n, s |-> s, l |-> l]
PyNone == Py("NoneType", 0, "", <<>>)
PyBool(b) == Py("bool", IF b THEN 1 ELSE 0, "", <<>>)
PyInt(i) == Py("int", i, "", <<>>)
PyStr(x) == Py("str", 0, x, <<>>)
PyList(q) == Py("list", 0, "", q)
\* a mapping, identified by its content; PyDict("") is the empty mapping {}
PyDict(x) == Py("dict", 0, x, <<>>)
\* an argument the caller left out, so that the parameter's default applies
Absent == Py("absent", 0, "", <<>>)

\* bool(x)
Truthy(x) ==
    CASE x.t = "NoneType" -> FALSE
      [] x.t \in {"bool", "int"} -> x.n # 0
      [] x.t \in {"str", "dict"} -> x.s # ""
      [] x.t = "list" -> x.l # <<>>
      [] OTHER -> TRUE

\* a or b
Or(a, b) == IF Truthy(a) THEN a ELSE b

\* isinstance(x, int); bool is a subclass of int
IsInstanceInt(x) == x.t \in {"int", "bool"}

\* the value a parameter takes: the argument, or the default when it is left out
Arg(x, default) == IF x = Absent THEN default ELSE x

EmptyDict == [k \in {} |-> PyNone]
\* d[k] = v
DictSet(d, k, v) == [x \in (DOMAIN d) \cup {k} |-> IF x = k THEN v ELSE d[x]]

\* variant: `if v:` in place of `if v is not None:`
KwIfTruthy(d, k, v) == IF Truthy(v) THEN DictSet(d, k, v) ELSE d
\* if v is not None: d[k] = v
KwIf(d, k, v) == IF v # PyNone THEN DictSet(d, k, v) ELSE d

\* s.rstrip(c), s a sequence of characters
RECURSIVE RStrip(_, _)
RStrip(s, c) ==
    IF s # <<>> /\ s[Len(s)] = c THEN RStrip(SubSeq(s, 1, Len(s) - 1), c) ELSE s

----------------------------------------------------------------------------
(* Outcomes of a call *)

Return(v) == [kind |-> "return", val |-> v, err |-> ""]
Raise(e) == [kind |-> "raise", val |-> PyNone, err |-> e]
NoOutcome == [kind |-> "none", val |-> PyNone, err |-> ""]

CredentialError == "ValueError: Either password or api_key must be provided"
ImportError == "ImportError: odooly is required to use OdooClient"
AuthFailed == "ValueError: Authentication failed. Check your credentials."
IndexError == "IndexError: list index out of range"
\* an error raised by the odooly client or the server
Fault == "Fault"

\* x[0]
Subscript0(x) == IF x.l = <<>> THEN Raise(IndexError) ELSE Return(x.l[1])

----------------------------------------------------------------------------
(* CustomTransport and OdooConfig *)

\* CustomTransport(): an unverified TLS context and nothing else; it is built
\* without any timeout
CustomTransport(id) == [cls |-> "CustomTransport", id |-> id, verify |-> FALSE, timeout |-> PyNone]

DefaultTimeout == 120

\* variant: tests `is None` in place of falsiness
model_post_init_none(cfg) == cfg.password = PyNone /\ cfg.api_key = PyNone
\* TRUE when the hook raises
model_post_init(cfg) == ~Truthy(cfg.password) /\ ~Truthy(cfg.api_key)

OdooConfig(url, database, username, password, api_key, timeout, transport) ==
    LET cfg == [url |-> url,
                database |-> database,
                username |-> username,
                password |-> Arg(password, PyNone),
                api_key |-> Arg(api_key, PyNone),
                timeout |-> Arg(timeout, PyInt(DefaultTimeout)),
                transport |-> Arg(transport, PyNone)]
    IN  IF model_post_init(cfg)
        THEN [ok |-> FALSE, err |-> CredentialError, cfg |-> cfg]
        ELSE [ok |-> TRUE, err |-> "", cfg |-> cfg]

----------------------------------------------------------------------------
(* OdooClient *)

NoClient == [url |-> <<>>, database |-> PyNone, username |-> PyNone,
             password |-> PyNone, kwargs |-> EmptyDict]

\* the attributes before __init__ has run
NoSelf == [config |-> PyNone, url |-> <<>>, database |-> PyNone, username |-> PyNone,
           password |-> PyNone, timeout |-> PyNone, uid |-> PyNone,
           transport |-> PyNone, client |-> NoClient, env |-> "none"]

\* variant: config.password or config.api_key
CredentialPasswordFirst(cfg) == Or(cfg.password, cfg.api_key)
\* config.api_key or config.password
Credential(cfg) == Or(cfg.api_key, cfg.password)

\* OdooClient.__init__; result [ok, err, self]
OdooClient(cfg, odoolyInstalled) ==
    IF ~odoolyInstalled
    THEN [ok |-> FALSE, err |-> ImportError, self |-> NoSelf]
    ELSE LET url == RStrip(cfg.url, "/")
             password == Credential(cfg)
             transport == IF cfg.transport # PyNone THEN cfg.transport
                          ELSE CustomTransport("facade")
             client == [url |-> url,
                        database |-> cfg.database,
                        username |-> cfg.username,
                        password |-> password,
                        kwargs |-> DictSet(EmptyDict, "transport", transport)]
         IN  [ok |-> TRUE, err |-> "",
              self |-> [config |-> cfg,
                        url |-> url,
                        database |-> cfg.database,
                        username |-> cfg.username,
                        password |-> password,
                        timeout |-> cfg.timeout,
                        uid |-> PyNone,
                        transport |-> transport,
                        client |-> client,
                        env |-> "client.env"]]

\* one remote invocation: target.method(*args, **kwargs)
Call(method, model, args, kwargs) ==
    [method |-> method, model |-> model, args |-> args, kwargs |-> kwargs]

\* variant: a failed call is issued a second time
RemoteCallRetry(call, rem) ==
    [calls |-> IF rem.kind = "raise" THEN <<call, call>> ELSE <<call>>, result |-> rem]
\* the call is issued once, with no try/except around it: the remote side's
\* answer (a value or an exception) is what the statement evaluates to
RemoteCall(call, rem) == [calls |-> <<call>>, result |-> rem]

\* return self.env[model].method(...)
Delegate(s, call, rem) ==
    LET r == RemoteCall(call, rem)
    IN  [self |-> s, calls |-> r.calls, ret |-> r.result]

\* variant: no `if self.uid is None` around the remote call
authenticate_nocache(s, rem) ==
    LET r == RemoteCall(Call("authenticate", "", <<s.database, s.username, s.password, PyDict("")>>, EmptyDict), rem)
    IN  IF r.result.kind = "raise"
        THEN [self |-> s, calls |-> r.calls, ret |-> r.result]
        ELSE [self |-> [s EXCEPT !.uid = r.result.val], calls |-> r.calls,
              ret |-> IF Truthy(r.result.val) THEN Return(r.result.val) ELSE Raise(AuthFailed)]
authenticate(s, rem) ==
    IF s.uid = PyNone
    THEN LET r == RemoteCall(Call("authenticate", "",
                                  <<s.database, s.username, s.password, PyDict("")>>,
                                  EmptyDict), rem)
         IN  IF r.result.kind = "raise"
             THEN [self |-> s, calls |-> r.calls, ret |-> r.result]
             ELSE LET s1 == [s EXCEPT !.uid = r.result.val]
                  IN  IF ~Truthy(s1.uid)
                      THEN [self |-> s1, calls |-> r.calls, ret |-> Raise(AuthFailed)]
                      ELSE [self |-> s1, calls |-> r.calls, ret |-> Return(s1.uid)]
    ELSE [self |-> s, calls |-> <<>>, ret |-> Return(s.uid)]

search(s, model, domain, offset, limit, order, rem) ==
    LET domain1 == Or(domain, PyList(<<>>))
        kw0 == DictSet(EmptyDict, "offset", offset)
        kw1 == KwIf(kw0, "limit", limit)
        kw2 == KwIf(kw1, "order", order)
    IN  Delegate(s, Call("search", model, <<domain1>>, kw2), rem)

search_read(s, model, domain, fields, offset, limit, order, rem) ==
    LET domain1 == Or(domain, PyList(<<>>))
        kw0 == DictSet(EmptyDict, "offset", offset)
        kw1 == KwIf(kw0, "fields", fields)
        kw2 == KwIf(kw1, "limit", limit)
        kw3 == KwIf(kw2, "order", order)
    IN  Delegate(s, Call("search_read", model, <<domain1>>, kw3), rem)

\* if isinstance(ids, int): ids = [ids]
NormalizeIds(ids) == IF IsInstanceInt(ids) THEN PyList(<<ids>>) ELSE ids

\* variant: unwraps when the caller passed a scalar
read_unwraps_scalar(ids_in, ids) == IsInstanceInt(ids_in)
\* the condition of read's conditional return: len(ids) == 1, on the normalized ids
read_unwraps(ids_in, ids) == Len(ids.l) = 1

read(s, model, ids_in, fields, rem) ==
    LET ids == NormalizeIds(ids_in)
        kw == KwIf(EmptyDict, "fields", fields)
        r == RemoteCall(Call("read", model, <<ids>>, kw), rem)
    IN  IF r.result.kind = "raise"
        THEN [self |-> s, calls |-> r.calls, ret |-> r.result]
        ELSE [self |-> s, calls |-> r.calls,
              ret |-> IF read_unwraps(ids_in, ids) THEN Subscript0(r.result.val)
                      ELSE Return(r.result.val)]

\* variant: also treats a one-element sequence as a single record
single_record_by_length(values) == values.t = "dict" \/ Len(values.l) = 1
\* isinstance(values, dict)
single_record(values) == values.t = "dict"

create(s, model, values, rem) ==
    LET values_to_create == IF single_record(values) THEN PyList(<<values>>) ELSE values
        r == RemoteCall(Call("create", model, <<values_to_create>>, EmptyDict), rem)
    IN  IF r.result.kind = "raise"
        THEN [self |-> s, calls |-> r.calls, ret |-> r.result]
        ELSE [self |-> s, calls |-> r.calls,
              ret |-> IF single_record(values) THEN Subscript0(r.result.val)
                      ELSE Return(r.result.val)]

write(s, model, ids_in, values, rem) ==
    Delegate(s, Call("write", model, <<NormalizeIds(ids_in), values>>, EmptyDict), rem)

unlink(s, model, ids_in, rem) ==
    Delegate(s, Call("unlink", model, <<NormalizeIds(ids_in)>>, EmptyDict), rem)

fields_get(s, model, fields, attributes, rem) ==
    LET kw1 == KwIf(EmptyDict, "fields", fields)
        kw2 == KwIf(kw1, "attributes", attributes)
    IN  Delegate(s, Call("fields_get", model, <<>>, kw2), rem)

get_model_list(s, rem) ==
    Delegate(s, Call("search_read", "ir.model",
                     <<PyList(<<>>), PyList(<<PyStr("model"), PyStr("name"), PyStr("transient")>>)>>,
                     EmptyDict), rem)

----------------------------------------------------------------------------
(* Inputs and remote answers *)

Urls == {<<"h">>, <<"h", "/", "/">>}
CredInputs == {Absent, PyStr(""), PyStr("secret")}
KeyInputs == {Absent, PyStr(""), PyStr("key")}
TimeoutInputs == {Absent, PyInt(60)}
TransportInputs == {Absent, CustomTransport("caller")}

Models == {"res.partner"}
Clause == PyList(<<PyStr("name"), PyStr("ilike"), PyStr("test")>>)
DomainInputs == {Absent, PyList(<<>>), PyList(<<Clause>>)}
OffsetInputs == {Absent, PyInt(5)}
LimitInputs == {Absent, PyInt(0)}
OrderInputs == {Absent, PyStr("name asc")}
FieldsInputs == {Absent, PyList(<<PyStr("name")>>)}
IdLists == {PyList(q) : q \in SeqsUpTo({PyInt(1), PyInt(2)}, MaxLen)}
IdsInputs == {PyInt(1)} \cup IdLists
ValueDicts == {PyDict("name=A"), PyDict("name=B")}
ValuesInputs == {PyDict("name=A")} \cup {PyList(q) : q \in SeqsUpTo(ValueDicts, MaxLen)}

AuthAnswers == {Raise(Fault), Return(PyBool(FALSE)), Return(PyInt(0)), Return(PyInt(123))}
IdsAnswers == {Raise(Fault), Return(PyList(<<PyInt(1), PyInt(2)>>))}
RecordsAnswers ==
    {Raise(Fault)} \cup
    {Return(PyList(q)) : q \in SeqsUpTo({PyDict("id=1"), PyDict("id=2")}, MaxLen)}
CreatedAnswers ==
    {Raise(Fault)} \cup {Return(PyList(q)) : q \in SeqsUpTo({PyInt(42), PyInt(43)}, MaxLen)}
BoolAnswers == {Raise(Fault), Return(PyBool(TRUE))}
FieldDefAnswers == {Raise(Fault), Return(PyDict("name:char"))}
ModelListAnswers == {Raise(Fault), Return(PyList(<<PyDict("model=res.partner")>>))}
FoundAnswers == {Raise(Fault), Return(PyList(<<PyDict("id=1"), PyDict("id=2")>>))}

NoInput == [model |-> "", domain |-> Absent, fields |-> Absent, offset |-> Absent,
            limit |-> Absent, order |-> Absent, ids |-> Absent, values |-> Absent,
            attributes |-> Absent]

NoHist == [authCalls |-> 0, ok |-> FALSE, okUid |-> PyNone, okCalls |-> 0,
           later |-> FALSE, failed |-> FALSE]

AuthCallsIn(cs) == Cardinality({i \in DOMAIN cs : cs[i].method = "authenticate"})

\* the history after method name has run with result r
HistAfter(name, r) ==
    LET n == hist.authCalls + AuthCallsIn(r.calls)
        succeeded == name = "authenticate" /\ r.ret.kind = "return" /\ Truthy(r.ret.val)
    IN  [authCalls |-> n,
         ok |-> hist.ok \/ succeeded,
         okUid |-> IF ~hist.ok /\ succeeded THEN r.ret.val ELSE hist.okUid,
         okCalls |-> IF ~hist.ok /\ succeeded THEN n ELSE hist.okCalls,
         later |-> hist.later \/ (hist.ok /\ name # "authenticate"),
         failed |-> IF name = "authenticate" THEN r.ret = Raise(AuthFailed) ELSE hist.failed]

\* a facade method runs from entry to its return or raise
Finish(name, input, rem, r) ==
    /\ hist.authCalls + AuthCallsIn(r.calls) <= MaxAuthCalls
    /\ pc' = "returned"
    /\ op' = name
    /\ inp' = input
    /\ remote' = IF r.calls = <<>> THEN NoOutcome ELSE rem
    /\ calls' = r.calls
    /\ ret' = r.ret
    /\ pre' = [self |-> self, failed |-> hist.failed]
    /\ self' = r.self
    /\ hist' = HistAfter(name, r)
    /\ UNCHANGED <<cfgIn, config>>

----------------------------------------------------------------------------
(* Actions *)

Init ==
    /\ pc = "start"
    /\ cfgIn = [url |-> <<>>, password |-> Absent, api_key |-> Absent,
                timeout |-> Absent, transport |-> Absent]
    /\ config = [ok |-> FALSE, err |-> "", cfg |-> PyNone]
    /\ self = NoSelf
    /\ op = "none"
    /\ inp = NoInput
    /\ remote = NoOutcome
    /\ calls = <<>>
    /\ ret = NoOutcome
    /\ pre = [self |-> NoSelf, failed |-> FALSE]
    /\ hist = NoHist

\* the caller builds OdooConfig(url=..., database=..., username=..., ...)
NewConfig ==
    /\ pc = "start"
    /\ \E url \in Urls, password \in CredInputs, api_key \in KeyInputs,
          timeout \in TimeoutInputs, transport \in TransportInputs :
          LET c == OdooConfig(url, PyStr("test_db"), PyStr("test_user"),
                              password, api_key, timeout, transport)
          IN  /\ cfgIn' = [url |-> url, password |-> password, api_key |-> api_key,
                           timeout |-> timeout, transport |-> transport]
              /\ config' = c
              /\ pc' = IF c.ok THEN "configured" ELSE "config_error"
    /\ UNCHANGED <<self, op, inp, remote, calls, ret, pre, hist>>

\* the caller builds OdooClient(config)
NewClient ==
    /\ pc = "configured"
    /\ \E odoolyInstalled \in BOOLEAN :
          LET c == OdooClient(config.cfg, odoolyInstalled)
          IN  /\ self' = c.self
              /\ pc' = IF c.ok THEN "idle" ELSE "import_error"
              /\ ret' = IF c.ok THEN NoOutcome ELSE Raise(c.err)
    /\ UNCHANGED <<cfgIn, config, op, inp, remote, calls, pre, hist>>

CallAuthenticate ==
    /\ pc = "idle"
    /\ \E rem \in AuthAnswers :
          Finish("authenticate", NoInput, rem, authenticate(self, rem))

CallSearch ==
    /\ pc = "idle"
    /\ \E model \in Models, domain \in DomainInputs, offset \in OffsetInputs,
          limit \in LimitInputs, order \in OrderInputs, rem \in IdsAnswers :
          Finish("search",
                 [NoInput EXCEPT !.model = model, !.domain = domain, !.offset = offset,
                                 !.limit = limit, !.order = order],
                 rem,
                 search(self, model, Arg(domain, PyNone), Arg(offset, PyInt(0)),
                        Arg(limit, PyNone), Arg(order, PyNone), rem))

CallSearchRead ==
    /\ pc = "idle"
    /\ \E model \in Models, domain \in DomainInputs, fields \in FieldsInputs,
          offset \in OffsetInputs, limit \in LimitInputs, order \in OrderInputs,
          rem \in FoundAnswers :
          Finish("search_read",
                 [NoInput EXCEPT !.model = model, !.domain = domain, !.fields = fields,
                                 !.offset = offset, !.limit = limit, !.order = order],
                 rem,
                 search_read(self, model, Arg(domain, PyNone), Arg(fields, PyNone),
                             Arg(offset, PyInt(0)), Arg(limit, PyNone),
                             Arg(order, PyNone), rem))

CallRead ==
    /\ pc = "idle"
    /\ \E model \in Models, ids \in IdsInputs, fields \in FieldsInputs,
          rem \in RecordsAnswers :
          Finish("read",
                 [NoInput EXCEPT !.model = model, !.ids = ids, !.fields = fields],
                 rem,
                 read(self, model, ids, Arg(fields, PyNone), rem))

CallCreate ==
    /\ pc = "idle"
    /\ \E model \in Models, values \in ValuesInputs, rem \in CreatedAnswers :
          Finish("create",
                 [NoInput EXCEPT !.model = model, !.values = values],
                 rem,
                 create(self, model, values, rem))

CallWrite ==
    /\ pc = "idle"
    /\ \E model \in Models, ids \in IdsInputs, values \in ValueDicts, rem \in BoolAnswers :
          Finish("write",
                 [NoInput EXCEPT !.model = model, !.ids = ids, !.values = values],
                 rem,
                 write(self, model, ids, values, rem))

CallUnlink ==
    /\ pc = "idle"
    /\ \E model \in Models, ids \in IdsInputs, rem \in BoolAnswers :
          Finish("unlink",
                 [NoInput EXCEPT !.model = model, !.ids = ids],
                 rem,
                 unlink(self, model, ids, rem))

CallFieldsGet ==
    /\ pc = "idle"
    /\ \E model \in Models, fields \in FieldsInputs, attributes \in FieldsInputs,
          rem \in FieldDefAnswers :
          Finish("fields_get",
                 [NoInput EXCEPT !.model = model, !.fields = fields,
                                 !.attributes = attributes],
                 rem,
                 fields_get(self, model, Arg(fields, PyNone), Arg(attributes, PyNone), rem))

CallGetModelList ==
    /\ pc = "idle"
    /\ \E rem \in ModelListAnswers :
          Finish("get_model_list", NoInput, rem, get_model_list(self, rem))

\* the caller has taken the result (or caught the error) and goes on to its
\* next call on the same instance
Resume ==
    /\ pc = "returned"
    /\ pc' = "idle"
    /\ op' = "none"
    /\ inp' = NoInput
    /\ remote' = NoOutcome
    /\ calls' = <<>>
    /\ ret' = NoOutcome
    /\ pre' = [self |-> self, failed |-> hist.failed]
    /\ UNCHANGED <<cfgIn, config, self, hist>>

Next ==
    \/ NewConfig
    \/ NewClient
    \/ CallAuthenticate
    \/ CallSearch
    \/ CallSearchRead
    \/ CallRead
    \/ CallCreate
    \/ CallWrite
    \/ CallUnlink
    \/ CallFieldsGet
    \/ CallGetModelList
    \/ Resume

Spec == Init /\ [][Next]_vars

----------------------------------------------------------------------------
(* Properties *)

Returned(name) == pc = "returned" /\ op = name
Constructed == pc \in {"idle", "returned"}
Falsy == {PyBool(FALSE), PyInt(0)}
NonZeroIdentity(x) == x.t = "int" /\ x.n # 0
Missing(x) == x \in {Absent, PyNone, PyStr("")}

\* C1: an authenticate() entered with no identity cached, whose remote
\* authenticate call returns False or 0, raises the authentication error and
\* leaves uid None.
C1_FailedAuthLeavesUidUnset ==
    (Returned("authenticate") /\ pre.self.uid = PyNone
        /\ remote.kind = "return" /\ remote.val \in Falsy)
    => (ret = Raise(AuthFailed) /\ self.uid = PyNone)

\* C2: once an authenticate() has returned a non-zero identity, every later
\* authenticate() returns that identity, the identity stays cached, and the
\* number of remote authenticate calls stays what it was at that first success,
\* whatever other facade methods run in between.
C2_AuthenticateMemoized ==
    hist.ok =>
        /\ NonZeroIdentity(hist.okUid)
        /\ hist.authCalls = hist.okCalls
        /\ self.uid = hist.okUid
        /\ Returned("authenticate") => ret = Return(hist.okUid)

\* C2 witness: after a first success and some other facade method, an
\* authenticate() has been answered from the cache.
C2_Witness ==
    /\ hist.ok /\ hist.later
    /\ Returned("authenticate") /\ calls = <<>> /\ ret = Return(PyInt(123))

\* C3: OdooConfig(...) fails, with the error 'Either password or api_key must
\* be provided', exactly when password and api_key are both absent or empty;
\* otherwise it succeeds and the fields hold the supplied values.
C3_ConfigValidation ==
    pc # "start" =>
        /\ ~config.ok <=> (cfgIn.password \in {Absent, PyStr("")}
                            /\ cfgIn.api_key \in {Absent, PyStr("")})
        /\ ~config.ok => config.err = CredentialError /\ pc = "config_error"
        /\ config.ok =>
            /\ config.cfg.url = cfgIn.url
            /\ config.cfg.password = (IF cfgIn.password = Absent THEN PyNone ELSE cfgIn.password)
            /\ config.cfg.api_key = (IF cfgIn.api_key = Absent THEN PyNone ELSE cfgIn.api_key)
            /\ config.cfg.timeout = (IF cfgIn.timeout = Absent THEN PyInt(120) ELSE cfgIn.timeout)
            /\ config.cfg.transport = (IF cfgIn.transport = Absent THEN PyNone ELSE cfgIn.transport)

\* C3 witness: construction was refused for an empty password with no api_key.
C3_Witness ==
    pc = "config_error" /\ cfgIn.password = PyStr("") /\ cfgIn.api_key = Absent

\* C4 as stated: read forwards ids as a sequence and, for every remote result,
\* returns the first record of the remote result exactly when the normalized
\* ids has length 1, and the remote result unchanged otherwise.
C4_ReadUnwrapsFirstRecord ==
    (Returned("read") /\ remote.kind = "return") =>
        LET ids == IF inp.ids.t = "list" THEN inp.ids ELSE PyList(<<inp.ids>>)
        IN  /\ Len(calls) = 1
            /\ calls[1].method = "read" /\ calls[1].model = inp.model
            /\ calls[1].args = <<ids>>
            /\ IF Len(ids.l) = 1
               THEN remote.val.l # <<>> /\ ret = Return(remote.val.l[1])
               ELSE ret = Return(remote.val)

\* C4 as amended: read forwards ids as a sequence; when the normalized ids has
\* length 1 it returns the first record of a non-empty remote result and raises
\* IndexError on an empty remote result; otherwise it returns the remote result
\* unchanged.
C4_ReadUnwrapRule ==
    (Returned("read") /\ remote.kind = "return") =>
        LET ids == IF inp.ids.t = "list" THEN inp.ids ELSE PyList(<<inp.ids>>)
        IN  /\ Len(calls) = 1
            /\ calls[1].method = "read" /\ calls[1].model = inp.model
            /\ calls[1].args = <<ids>>
            /\ IF Len(ids.l) = 1
               THEN IF remote.val.l = <<>>
                    THEN ret = Raise(IndexError)
                    ELSE ret = Return(remote.val.l[1])
               ELSE ret = Return(remote.val)

\* C4 witness: read was given a one-element sequence, the remote returned two
\* records, and the first one came back unwrapped.
C4_Witness ==
    /\ Returned("read") /\ inp.ids = PyList(<<PyInt(2)>>)
    /\ remote = Return(PyList(<<PyDict("id=2"), PyDict("id=1")>>))
    /\ ret = Return(PyDict("id=2"))

\* C5 as stated: create always forwards a sequence of mappings (one mapping is
\* wrapped, a sequence is forwarded unchanged); it returns the first created
\* identifier when the input was one mapping and the full remote sequence when
\* the input was a sequence of any length.
C5_CreateReturnsFirstOrAll ==
    (Returned("create") /\ remote.kind = "return") =>
        /\ Len(calls) = 1
        /\ calls[1].method = "create" /\ calls[1].model = inp.model
        /\ calls[1].args = <<IF inp.values.t = "dict" THEN PyList(<<inp.values>>) ELSE inp.values>>
        /\ calls[1].kwargs = EmptyDict
        /\ IF inp.values.t = "dict"
           THEN remote.val.l # <<>> /\ ret = Return(remote.val.l[1])
           ELSE ret = Return(remote.val)

\* C5 as amended: as C5, except that for one mapping the first identifier is
\* returned when the remote sequence is non-empty, and IndexError is raised
\* when the remote sequence is empty.
C5_CreateShapeRule ==
    (Returned("create") /\ remote.kind = "return") =>
        /\ Len(calls) = 1
        /\ calls[1].method = "create" /\ calls[1].model = inp.model
        /\ calls[1].args = <<IF inp.values.t = "dict" THEN PyList(<<inp.values>>) ELSE inp.values>>
        /\ calls[1].kwargs = EmptyDict
        /\ IF inp.values.t = "dict"
           THEN IF remote.val.l = <<>>
                THEN ret = Raise(IndexError)
                ELSE ret = Return(remote.val.l[1])
           ELSE ret = Return(remote.val)

\* C5 witness: create was given a one-element sequence and returned the remote
\* sequence of identifiers, not its first element.
C5_Witness ==
    /\ Returned("create") /\ inp.values = PyList(<<PyDict("name=B")>>)
    /\ calls[1].args = <<PyList(<<PyDict("name=B")>>)>>
    /\ ret = Return(PyList(<<PyInt(43)>>))

\* C6: search and search_read forward the domain as the only positional
\* argument (the empty domain when it is omitted), always forward offset as a
\* keyword (0 when omitted), and forward limit, order (and fields, for
\* search_read) as keywords exactly when the caller supplied them, with the
\* caller's values.
C6_OptionalKeywords ==
    (Returned("search") \/ Returned("search_read")) =>
        LET kw == calls[1].kwargs
            optional == IF op = "search" THEN {"limit", "order"}
                        ELSE {"fields", "limit", "order"}
        IN  /\ Len(calls) = 1
            /\ calls[1].method = op /\ calls[1].model = inp.model
            /\ calls[1].args = <<IF inp.domain = Absent THEN PyList(<<>>) ELSE inp.domain>>
            /\ DOMAIN kw \subseteq {"offset"} \cup optional
            /\ "offset" \in DOMAIN kw
            /\ kw["offset"] = (IF inp.offset = Absent THEN PyInt(0) ELSE inp.offset)
            /\ \A k \in optional :
                  /\ k \in DOMAIN kw <=> inp[k] # Absent
                  /\ k \in DOMAIN kw => kw[k] = inp[k]

\* C6 witness: a search_read with limit=0 supplied and fields, order and offset
\* omitted forwarded exactly offset=0 and limit=0.
C6_Witness ==
    /\ Returned("search_read")
    /\ inp.limit = PyInt(0) /\ inp.fields = Absent /\ inp.order = Absent
    /\ inp.offset = Absent /\ inp.domain = Absent
    /\ DOMAIN calls[1].kwargs = {"offset", "limit"}

\* C7: the facade's credential is the api_key when the configuration has one
\* and the password otherwise; that credential is the one given to the external
\* client at construction and to every remote authenticate call.
C7_CredentialPrecedence ==
    Constructed =>
        LET cred == IF Missing(cfgIn.api_key) THEN cfgIn.password ELSE cfgIn.api_key
        IN  /\ self.password = cred
            /\ self.client.password = cred
            /\ \A i \in DOMAIN calls :
                  calls[i].method = "authenticate" => calls[i].args[3] = cred

\* C7 witness: with both a password and an api_key configured, a remote
\* authenticate call was made with the api_key.
C7_Witness ==
    /\ Returned("authenticate") /\ Len(calls) = 1
    /\ cfgIn.password = PyStr("secret") /\ cfgIn.api_key = PyStr("key")
    /\ calls[1].args[3] = PyStr("key")

\* C8: the construction call to the external client carries the configured
\* timeout, as a keyword or as a transport configured with it.
C8_TimeoutForwarded ==
    Constructed =>
        LET kw == self.client.kwargs
        IN  \/ "timeout" \in DOMAIN kw /\ kw["timeout"] = self.config.timeout
            \/ "transport" \in DOMAIN kw /\ kw["transport"].timeout = self.config.timeout

\* C9: when the remote call of a facade method raises, the method ends with
\* that same error, has issued exactly one remote call, and leaves the instance
\* (uid, credential, env and the rest) as it was; a remote exception during
\* authenticate leaves uid unset.
C9_RemoteErrorsPropagate ==
    (pc = "returned" /\ remote.kind = "raise") =>
        /\ ret = remote
        /\ Len(calls) = 1
        /\ self = pre.self
        /\ op = "authenticate" => self.uid = PyNone

\* C9 witness: the remote authenticate call raised and authenticate ended with
\* that error.
C9_Witness ==
    Returned("authenticate") /\ remote = Raise(Fault) /\ ret = Raise(Fault)

\* C10: when the remote answers (falsy or non-zero), each authenticate() raises
\* the authentication error or returns a non-zero identity; in every state uid
\* is None or a non-zero integer; and an authenticate() that follows a failed
\* one issues a new remote authenticate call.
C10_AuthNeverFalsy ==
    /\ (Returned("authenticate") /\ remote.kind # "raise") =>
            \/ ret = Raise(AuthFailed)
            \/ ret.kind = "return" /\ NonZeroIdentity(ret.val)
    /\ self.uid = PyNone \/ NonZeroIdentity(self.uid)
    /\ (Returned("authenticate") /\ pre.failed) => calls # <<>>

====
